---- MODULE Spec2Model ----
(***************************************************************************)
(* A model of the App Mesh virtual node builder                           *)
(* (packages/@aws-cdk/aws-appmesh/lib/virtual-node.ts) and of the client  *)
(* policy factories that accompany it.                                     *)
(*                                                                         *)
(* A virtual node holds three ordered lists: backends, listeners and       *)
(* backendDefaults.  The operations are the constructor, the two import    *)
(* factories, addBackends, addListeners and addBackendDefaults.            *)
(*                                                                         *)
(* An optional value (a TypeScript `x?: T`) is a sequence of length 0      *)
(* (undefined) or 1 (the value).  An error thrown by an operation is the   *)
(* message of the Error object; NoError is "no error was thrown".          *)
(***************************************************************************)
EXTENDS Integers, Sequences, FiniteSets, TLC

VARIABLES
    kind,             \* "none": no node built yet; "VirtualNode"; "Imported"
    backends,         \* VirtualNodeBase.backends
    listeners,        \* VirtualNodeBase.listeners
    backendDefaults,  \* VirtualNode.backendDefaults
    lastCall,         \* the operation performed by the last step, its arguments and its error
    candidate,        \* the listener the caller holds (SpecRender draws it at the start)
    policy,           \* the TLSClientValidation / ClientPolicy object created last
    policyProps,      \* the options it was created from
    bindResult        \* what the last bind call returned

vars == <<kind, backends, listeners, backendDefaults, lastCall, candidate, policy, policyProps, bindResult>>

----------------------------------------------------------------------------
(* Bounds of the exploration *)

\* longest backends list explored
MaxBackends == 3
\* largest number of arguments passed to a variadic call
MaxArgs == 2

----------------------------------------------------------------------------
(* Optional values and the two JavaScript defaulting operators *)

Undefined == <<>>
Some(v) == <<v>>
IsDefined(o) == o # Undefined
Opt(S) == {Undefined} \cup {Some(v) : v \in S}

\* JavaScript truthiness of an optional number / an optional string
TruthyNum(o) == IsDefined(o) /\ o[1] # 0
TruthyStr(o) == IsDefined(o) /\ o[1] # ""

\* a ?? b
Coalesce(o, d) == IF IsDefined(o) THEN o[1] ELSE d
\* a || b  on numbers, on strings and on objects (every object is truthy)
OrNum(o, d) == IF TruthyNum(o) THEN o[1] ELSE d
OrStr(o, d) == IF TruthyStr(o) THEN o[1] ELSE d
OrObj(o, d) == IF IsDefined(o) THEN o[1] ELSE d

\* the sequences over S with at most n elements
SeqUpTo(S, n) == UNION {[1..k -> S] : k \in 0..n}

NoError == ""

----------------------------------------------------------------------------
(* The types of the inputs: Protocol, Duration, PortMapping, HealthCheck *)

HTTP == "http"
TCP == "tcp"
HTTP2 == "http2"
GRPC == "grpc"
Protocol == {HTTP, TCP, HTTP2, GRPC}

\* cdk.Duration.seconds(n) and its toMilliseconds()
DurationSeconds(n) == [amount |-> n, unit |-> "seconds"]
toMilliseconds(d) == d.amount * 1000

\* PortMapping: a port other than the default one, with each protocol
PortMappings == {[port |-> 9090, protocol |-> p] : p \in Protocol}

\* HealthCheck: every field optional
HealthChecks ==
    [healthyThreshold : Opt({0, 1, 3}),
     interval : Opt({DurationSeconds(10)}),
     path : Opt({"", "/ping"}),
     port : Opt({0, 7070}),
     protocol : Opt(Protocol),
     timeout : Opt({DurationSeconds(3)}),
     unhealthyThreshold : Opt({4, 11})]

\* VirtualNodeListener
VirtualNodeListeners == [portMapping : Opt(PortMappings), healthCheck : Opt(HealthChecks)]

NoHealthCheckFields ==
    [healthyThreshold |-> Undefined, interval |-> Undefined, path |-> Undefined,
     port |-> Undefined, protocol |-> Undefined, timeout |-> Undefined,
     unhealthyThreshold |-> Undefined]

\* A few listeners for the calls whose outcome does not depend on the listener:
\* nothing given, a valid TCP listener with a health check, a health check with a
\* path under TCP, and a health check whose threshold is out of range.
ListenerSamples ==
    {[portMapping |-> Undefined, healthCheck |-> Undefined],
     [portMapping |-> Some([port |-> 9090, protocol |-> TCP]),
      healthCheck |-> Some(NoHealthCheckFields)],
     [portMapping |-> Undefined,
      healthCheck |-> Some([NoHealthCheckFields EXCEPT !.protocol = Some(TCP), !.path = Some("/ping")])],
     [portMapping |-> Undefined,
      healthCheck |-> Some([NoHealthCheckFields EXCEPT !.healthyThreshold = Some(1)])]}

\* IVirtualService: only virtualServiceName is read here
VirtualServices ==
    {[virtualServiceName |-> "svc-a", virtualServiceArn |-> "arn:svc-a"],
     [virtualServiceName |-> "svc-b", virtualServiceArn |-> "arn:svc-b"]}

----------------------------------------------------------------------------
(* private/utils: validateHealthChecks, the range checks on the rendered numbers *)

HEALTH_CHECK_PROPERTY_THRESHOLDS ==
    [healthyThreshold |-> <<2, 10>>,
     intervalMillis |-> <<5000, 300000>>,
     port |-> <<1, 65535>>,
     timeoutMillis |-> <<2000, 60000>>,
     unhealthyThreshold |-> <<2, 10>>]

ErrBelowMinimum == "The value is below the minimum threshold"
ErrAboveMaximum == "The value is above the maximum threshold"

\* the error thrown for the rendered health check, NoError when it is accepted
validateHealthChecks(healthCheck) ==
    LET T == HEALTH_CHECK_PROPERTY_THRESHOLDS
        keys == <<"healthyThreshold", "intervalMillis", "port", "timeoutMillis", "unhealthyThreshold">>
        bad == {i \in 1..Len(keys) :
                   \/ healthCheck[keys[i]] < T[keys[i]][1]
                   \/ healthCheck[keys[i]] > T[keys[i]][2]}
        first == CHOOSE i \in bad : \A j \in bad : i <= j
    IN  IF bad = {} THEN NoError
        ELSE IF healthCheck[keys[first]] < T[keys[first]][1] THEN ErrBelowMinimum
        ELSE ErrAboveMaximum

----------------------------------------------------------------------------
(* virtual-node.ts: renderHealthCheck *)

ErrPathWithTCP == "The path property cannot be set with Protocol.TCP"
ErrPathWithGRPC == "The path property cannot be set with Protocol.GRPC"

\* [err, value]: the error thrown, or the rendered health check (undefined for none)
renderHealthCheck(hc, pm) ==
    IF hc = Undefined THEN [err |-> NoError, value |-> Undefined]
    ELSE IF hc[1].protocol = Some(TCP) /\ TruthyStr(hc[1].path)
         THEN [err |-> ErrPathWithTCP, value |-> Undefined]
    ELSE IF hc[1].protocol = Some(GRPC) /\ TruthyStr(hc[1].path)
         THEN [err |-> ErrPathWithGRPC, value |-> Undefined]
    ELSE LET protocol == Coalesce(hc[1].protocol, pm.protocol)
             healthCheck ==
                 [healthyThreshold |-> OrNum(hc[1].healthyThreshold, 2),
                  intervalMillis |-> toMilliseconds(OrObj(hc[1].interval, DurationSeconds(5))),
                  path |-> IF TruthyStr(hc[1].path) THEN hc[1].path
                           ELSE IF protocol = HTTP THEN Some("/") ELSE Undefined,
                  port |-> OrNum(hc[1].port, pm.port),
                  protocol |-> OrStr(hc[1].protocol, pm.protocol),
                  timeoutMillis |-> toMilliseconds(OrObj(hc[1].timeout, DurationSeconds(2))),
                  unhealthyThreshold |-> OrNum(hc[1].unhealthyThreshold, 2)]
             verdict == validateHealthChecks(healthCheck)
         IN  IF verdict # NoError THEN [err |-> verdict, value |-> Undefined]
             ELSE [err |-> NoError, value |-> Some(healthCheck)]

----------------------------------------------------------------------------
(* virtual-node.ts: TLSClientValidation, FileTrust, ACMTrust *)

CertificateFiles == {"ca.pem", "alt.pem"}
\* lists of certificate authority ARNs: one, and two in both orders
ArnLists == {<<"arn:ca-1">>, <<"arn:ca-1", "arn:ca-2">>, <<"arn:ca-2", "arn:ca-1">>}

\* FileTrustOptions / ACMTrustOptions of virtual-node.ts
NodeFileTrustOptions == [certificateChain : CertificateFiles]
NodeACMTrustOptions == [certificateAuthorityArns : ArnLists]

\* new FileTrust(props), new ACMTrust(props)
FileTrust(props) == [class |-> "FileTrust", certificateChain |-> props.certificateChain]
ACMTrust(props) == [class |-> "ACMTrust", certificateAuthorityArns |-> props.certificateAuthorityArns]

\* FileTrust.bind / ACMTrust.bind: the scope is not read
TLSClientValidationBind(self, scope) ==
    IF self.class = "FileTrust"
    THEN [tlsValidation |-> [trust |-> [file |-> [certificateChain |-> self.certificateChain]]]]
    ELSE [tlsValidation |->
             [trust |-> [acm |-> [certificateAuthorityArns |-> self.certificateAuthorityArns]]]]

PortLists == {<<443>>, <<443, 8443>>}

\* TLSClientPolicyOptions for a given validation object
TLSClientPolicyOptions(validations) ==
    [enforce : Opt(BOOLEAN), ports : Opt(PortLists), validation : validations]

\* A few backend defaults for the calls that are rejected whatever is passed
BackendDefaultsSamples ==
    {[tlsClientPolicy |->
         [enforce |-> Undefined, ports |-> Undefined,
          validation |-> FileTrust([certificateChain |-> "ca.pem"])]],
     [tlsClientPolicy |->
         [enforce |-> Some(FALSE), ports |-> Some(<<443>>),
          validation |-> ACMTrust([certificateAuthorityArns |-> <<"arn:ca-1", "arn:ca-2">>])]]}

----------------------------------------------------------------------------
(* virtual-node.ts: the bodies of the three add methods, as functions of the list *)

ErrOneListener == "VirtualNode may have at most one listener"
ErrOneBackendDefault == "Virtual Node can have only one backend default"

\* a variant that inserts at the front (unshift) instead of pushing
addBackendsResult_Unshift(cur, props) ==
    [i \in 1..Len(props) |->
        [virtualService |-> [virtualServiceName |-> props[i].virtualServiceName]]] \o cur

\* a variant that skips a service the list already names
addBackendsResult_Dedup(cur, props) ==
    cur \o SelectSeq(
               [i \in 1..Len(props) |->
                   [virtualService |-> [virtualServiceName |-> props[i].virtualServiceName]]],
               LAMBDA e : \A j \in 1..Len(cur) : cur[j] # e)

\* addBackends: one entry pushed per virtual service, in argument order
addBackendsResult(cur, props) ==
    cur \o [i \in 1..Len(props) |->
               [virtualService |-> [virtualServiceName |-> props[i].virtualServiceName]]]

\* the for loop of addListeners: a throw leaves what was pushed before it
RECURSIVE pushListeners(_, _)
pushListeners(cur, ls) ==
    IF ls = <<>> THEN [err |-> NoError, listeners |-> cur]
    ELSE LET portMapping == OrObj(ls[1].portMapping, [port |-> 8080, protocol |-> HTTP])
             healthCheck == renderHealthCheck(ls[1].healthCheck, portMapping)
         IN  IF healthCheck.err # NoError
             THEN [err |-> healthCheck.err, listeners |-> cur]
             ELSE pushListeners(
                      Append(cur, [portMapping |-> portMapping, healthCheck |-> healthCheck.value]),
                      Tail(ls))

\* a variant whose check counts only the listeners already held
addListenersResult_IgnoresPassed(cur, ls) ==
    IF Len(cur) > 1
    THEN [err |-> ErrOneListener, listeners |-> cur]
    ELSE pushListeners(cur, ls)

\* a variant that checks the cardinality after the loop has pushed
addListenersResult_CheckAfterPush(cur, ls) ==
    LET r == pushListeners(cur, ls)
    IN  IF r.err = NoError /\ Len(r.listeners) > 1
        THEN [err |-> ErrOneListener, listeners |-> r.listeners]
        ELSE r

\* a variant that pushes the listener before its health check is rendered
addListenersResult_StoreBeforeRender(cur, ls) ==
    IF Len(cur) + Len(ls) > 1
    THEN [err |-> ErrOneListener, listeners |-> cur]
    ELSE LET r == pushListeners(cur, ls)
         IN  IF r.err = NoError THEN r
             ELSE [err |-> r.err,
                   listeners |->
                       Append(r.listeners,
                           [portMapping |-> OrObj(ls[1].portMapping, [port |-> 8080, protocol |-> HTTP]),
                            healthCheck |-> Undefined])]

\* addListeners: the cardinality check, then the loop
addListenersResult(cur, ls) ==
    IF Len(cur) + Len(ls) > 1
    THEN [err |-> ErrOneListener, listeners |-> cur]
    ELSE pushListeners(cur, ls)

\* the policy record pushed by addBackendDefaults, with the given enforce value
clientPolicyOf(bd, scope, enforce) ==
    [clientPolicy |->
        [tls |->
            [enforce |-> enforce,
             validation |->
                 TLSClientValidationBind(bd.tlsClientPolicy.validation, scope).tlsValidation,
             ports |-> bd.tlsClientPolicy.ports]]]

\* a variant whose length check is off by one: a second policy is stored too
addBackendDefaultsResult_OffByOne(cur, bd, scope) ==
    IF Len(cur) <= 1
    THEN [err |-> NoError,
          backendDefaults |->
              Append(cur, clientPolicyOf(bd, scope, Coalesce(bd.tlsClientPolicy.enforce, TRUE)))]
    ELSE [err |-> ErrOneBackendDefault, backendDefaults |-> cur]

\* a variant that defaults enforce with || instead of ??
addBackendDefaultsResult_OrTrue(cur, bd, scope) ==
    IF Len(cur) = 0
    THEN [err |-> NoError,
          backendDefaults |->
              Append(cur,
                  clientPolicyOf(bd, scope,
                      IF IsDefined(bd.tlsClientPolicy.enforce) /\ bd.tlsClientPolicy.enforce[1]
                      THEN bd.tlsClientPolicy.enforce[1] ELSE TRUE))]
    ELSE [err |-> ErrOneBackendDefault, backendDefaults |-> cur]

\* addBackendDefaults: stores the first policy, rejects every later one
addBackendDefaultsResult(cur, bd, scope) ==
    IF Len(cur) = 0
    THEN [err |-> NoError,
          backendDefaults |->
              Append(cur,
                  [clientPolicy |->
                      [tls |->
                          [enforce |-> Coalesce(bd.tlsClientPolicy.enforce, TRUE),
                           validation |->
                               TLSClientValidationBind(bd.tlsClientPolicy.validation, scope).tlsValidation,
                           ports |-> bd.tlsClientPolicy.ports]]])]
    ELSE [err |-> ErrOneBackendDefault, backendDefaults |-> cur]

\* spec.backendDefaults of the CfnVirtualNode: this.backendDefaults[0]
renderedBackendDefaults == IF Len(backendDefaults) = 0 THEN Undefined ELSE Some(backendDefaults[1])

----------------------------------------------------------------------------
(* The client policy factories: ClientPolicy, ClientPolicyImpl *)

\* lists of certificate chain files: none, one, two
ChainLists == {<<>>, <<"ca.pem">>, <<"ca.pem", "alt.pem">>}

\* FileTrustOptions / AcmTrustOptions, both extending ClientPolicyOptions
FileTrustOptions ==
    [enforceTls : Opt(BOOLEAN), ports : Opt(PortLists), certificateChain : ChainLists]
AcmTrustOptions ==
    [enforceTls : Opt(BOOLEAN), ports : Opt(PortLists), certificateAuthorityArns : ArnLists]

\* the constructor: enforce has the default parameter value true
ClientPolicyImpl(enforce, ports, certificateType, certificate) ==
    [class |-> "ClientPolicyImpl",
     enforce |-> Coalesce(enforce, TRUE),
     ports |-> ports,
     certificateType |-> certificateType,
     certificate |-> certificate]

ClientPolicyFileTrust(props) ==
    ClientPolicyImpl(props.enforceTls, props.ports, "file", props.certificateChain)
ClientPolicyAcmTrust(props) ==
    ClientPolicyImpl(props.enforceTls, props.ports, "acm", props.certificateAuthorityArns)

\* this.certificate[0]: undefined for an empty array
FirstOf(arr) == IF Len(arr) = 0 THEN Undefined ELSE Some(arr[1])

\* the trust record has the one key this.certificateType
renderValidation(self) ==
    [trust |->
        [k \in {self.certificateType} |->
            IF self.certificateType = "file"
            THEN [certificateChain |-> FirstOf(self.certificate)]
            ELSE [certificateAuthorityArns |-> self.certificate]]]

\* ClientPolicyImpl.bind: the scope is not read
ClientPolicyBind(self, scope) ==
    [clientPolicy |->
        [tls |-> [ports |-> self.ports, enforce |-> self.enforce, validation |-> renderValidation(self)]]]

Scopes == {"stack-a", "stack-b"}

----------------------------------------------------------------------------
(* The state machine *)

NoCall ==
    [op |-> "", services |-> <<>>, listeners |-> <<>>, backendDefaults |-> Undefined,
     scope |-> "", err |-> NoError]

Init ==
    /\ kind = "none"
    /\ backends = <<>>
    /\ listeners = <<>>
    /\ backendDefaults = <<>>
    /\ lastCall = NoCall
    /\ candidate = Undefined
    /\ policy = Undefined
    /\ policyProps = Undefined
    /\ bindResult = Undefined

nodeVars == <<kind, backends, listeners, backendDefaults>>
policyVars == <<candidate, policy, policyProps, bindResult>>

\* VirtualNodeProps: the three properties that reach the lists
VirtualNodeProps(services, ls, bds) ==
    [backends : Opt(services), listener : Opt(ls), backendDefaults : Opt(bds)]

\* new VirtualNode(scope, id, props); a throw leaves no node behind
VirtualNode(props) ==
    /\ kind = "none"
    /\ Len(OrObj(props.backends, <<>>)) <= MaxBackends
    /\ LET given == OrObj(props.backends, <<>>)
           passed == IF IsDefined(props.listener) THEN <<props.listener[1]>> ELSE <<>>
           b == addBackendsResult(<<>>, given)
           l == addListenersResult(<<>>, passed)
           d == IF l.err = NoError /\ IsDefined(props.backendDefaults)
                THEN addBackendDefaultsResult(<<>>, props.backendDefaults[1], "this")
                ELSE [err |-> NoError, backendDefaults |-> <<>>]
           err == IF l.err # NoError THEN l.err ELSE d.err
       IN  /\ IF err = NoError
              THEN /\ kind' = "VirtualNode"
                   /\ backends' = b
                   /\ listeners' = l.listeners
                   /\ backendDefaults' = d.backendDefaults
              ELSE /\ kind' = "none"
                   /\ backends' = <<>>
                   /\ listeners' = <<>>
                   /\ backendDefaults' = <<>>
           /\ lastCall' = [op |-> "VirtualNode", services |-> given, listeners |-> passed,
                           backendDefaults |-> props.backendDefaults, scope |-> "this",
                           err |-> err]
    /\ UNCHANGED policyVars

\* VirtualNode.fromVirtualNodeArn: a VirtualNodeBase with empty lists
fromVirtualNodeArn ==
    /\ kind = "none"
    /\ kind' = "Imported"
    /\ backends' = <<>>
    /\ listeners' = <<>>
    /\ lastCall' = [NoCall EXCEPT !.op = "fromVirtualNodeArn"]
    /\ UNCHANGED <<backendDefaults, policyVars>>

\* VirtualNode.fromVirtualNodeAttributes: a VirtualNodeBase with empty lists
fromVirtualNodeAttributes ==
    /\ kind = "none"
    /\ kind' = "Imported"
    /\ backends' = <<>>
    /\ listeners' = <<>>
    /\ lastCall' = [NoCall EXCEPT !.op = "fromVirtualNodeAttributes"]
    /\ UNCHANGED <<backendDefaults, policyVars>>

addBackends(props) ==
    /\ kind # "none"
    /\ Len(backends) + Len(props) <= MaxBackends
    /\ backends' = addBackendsResult(backends, props)
    /\ lastCall' = [NoCall EXCEPT !.op = "addBackends", !.services = props]
    /\ UNCHANGED <<kind, listeners, backendDefaults, policyVars>>

addListeners(ls) ==
    /\ kind # "none"
    /\ LET r == addListenersResult(listeners, ls)
       IN  /\ listeners' = r.listeners
           /\ lastCall' = [NoCall EXCEPT !.op = "addListeners", !.listeners = ls, !.err = r.err]
    /\ UNCHANGED <<kind, backends, backendDefaults, policyVars>>

\* only the VirtualNode class has the method
addBackendDefaults(bd) ==
    /\ kind = "VirtualNode"
    /\ LET r == addBackendDefaultsResult(backendDefaults, bd, "this")
       IN  /\ backendDefaults' = r.backendDefaults
           /\ lastCall' = [NoCall EXCEPT !.op = "addBackendDefaults",
                                         !.backendDefaults = Some(bd),
                                         !.scope = "this", !.err = r.err]
    /\ UNCHANGED <<kind, backends, listeners, policyVars>>

----------------------------------------------------------------------------
(* Spec: the three lists of a node, with a few listeners and backend defaults *)

Next ==
    \/ \E props \in VirtualNodeProps(SeqUpTo(VirtualServices, MaxArgs), ListenerSamples,
                                     BackendDefaultsSamples) : VirtualNode(props)
    \/ fromVirtualNodeArn
    \/ fromVirtualNodeAttributes
    \/ \E props \in SeqUpTo(VirtualServices, MaxArgs) : addBackends(props)
    \/ \E ls \in SeqUpTo(ListenerSamples, MaxArgs) : addListeners(ls)
    \/ \E bd \in BackendDefaultsSamples : addBackendDefaults(bd)

Spec == Init /\ [][Next]_vars

----------------------------------------------------------------------------
(* SpecRender: one listener at a time, over every health check and port mapping *)

\* The listener is drawn once, at the start; every step passes that listener.
InitRender ==
    /\ kind = "none"
    /\ backends = <<>>
    /\ listeners = <<>>
    /\ backendDefaults = <<>>
    /\ lastCall = NoCall
    /\ candidate \in {Some(l) : l \in VirtualNodeListeners}
    /\ policy = Undefined
    /\ policyProps = Undefined
    /\ bindResult = Undefined

NextRender ==
    \/ \E props \in VirtualNodeProps({}, {candidate[1]}, {}) : VirtualNode(props)
    \/ fromVirtualNodeArn
    \/ fromVirtualNodeAttributes
    \/ addListeners(<<candidate[1]>>)

SpecRender == InitRender /\ [][NextRender]_vars

----------------------------------------------------------------------------
(* SpecTls: the trust objects, their bind, and the backend defaults built from them *)

TLSClientValidation_fileTrust(props) ==
    /\ policy' = Some(FileTrust(props))
    /\ policyProps' = Some([factory |-> "TLSClientValidation.fileTrust", props |-> props])
    /\ bindResult' = Undefined
    /\ candidate' = candidate
    /\ lastCall' = [NoCall EXCEPT !.op = "TLSClientValidation.fileTrust"]
    /\ UNCHANGED nodeVars

TLSClientValidation_acmTrust(props) ==
    /\ policy' = Some(ACMTrust(props))
    /\ policyProps' = Some([factory |-> "TLSClientValidation.acmTrust", props |-> props])
    /\ bindResult' = Undefined
    /\ candidate' = candidate
    /\ lastCall' = [NoCall EXCEPT !.op = "TLSClientValidation.acmTrust"]
    /\ UNCHANGED nodeVars

ClientPolicy_fileTrust(props) ==
    /\ policy' = Some(ClientPolicyFileTrust(props))
    /\ policyProps' = Some([factory |-> "ClientPolicy.fileTrust", props |-> props])
    /\ bindResult' = Undefined
    /\ candidate' = candidate
    /\ lastCall' = [NoCall EXCEPT !.op = "ClientPolicy.fileTrust"]
    /\ UNCHANGED nodeVars

ClientPolicy_acmTrust(props) ==
    /\ policy' = Some(ClientPolicyAcmTrust(props))
    /\ policyProps' = Some([factory |-> "ClientPolicy.acmTrust", props |-> props])
    /\ bindResult' = Undefined
    /\ candidate' = candidate
    /\ lastCall' = [NoCall EXCEPT !.op = "ClientPolicy.acmTrust"]
    /\ UNCHANGED nodeVars

IsValidation(o) == IsDefined(o) /\ o[1].class \in {"FileTrust", "ACMTrust"}
IsClientPolicy(o) == IsDefined(o) /\ o[1].class = "ClientPolicyImpl"

\* validation.bind(scope) on the object created last
TLSClientValidation_bind(scope) ==
    /\ IsValidation(policy)
    /\ bindResult' = Some(TLSClientValidationBind(policy[1], scope))
    /\ lastCall' = [NoCall EXCEPT !.op = "TLSClientValidation.bind", !.scope = scope]
    /\ UNCHANGED <<nodeVars, candidate, policy, policyProps>>

\* clientPolicy.bind(scope) on the object created last
ClientPolicy_bind(scope) ==
    /\ IsClientPolicy(policy)
    /\ bindResult' = Some(ClientPolicyBind(policy[1], scope))
    /\ lastCall' = [NoCall EXCEPT !.op = "ClientPolicy.bind", !.scope = scope]
    /\ UNCHANGED <<nodeVars, candidate, policy, policyProps>>

\* the backend defaults that can be built around the validation object created last
BackendDefaultsFromPolicy ==
    IF IsValidation(policy)
    THEN {[tlsClientPolicy |-> o] : o \in TLSClientPolicyOptions({policy[1]})}
    ELSE {}

NextTls ==
    \/ \E props \in NodeFileTrustOptions : TLSClientValidation_fileTrust(props)
    \/ \E props \in NodeACMTrustOptions : TLSClientValidation_acmTrust(props)
    \/ \E scope \in Scopes : TLSClientValidation_bind(scope)
    \/ \E props \in FileTrustOptions : ClientPolicy_fileTrust(props)
    \/ \E props \in AcmTrustOptions : ClientPolicy_acmTrust(props)
    \/ \E scope \in Scopes : ClientPolicy_bind(scope)
    \/ \E props \in VirtualNodeProps({}, {}, BackendDefaultsFromPolicy) : VirtualNode(props)
    \/ \E bd \in (IF Len(backendDefaults) = 0 THEN BackendDefaultsFromPolicy
                  ELSE BackendDefaultsSamples) : addBackendDefaults(bd)

SpecTls == Init /\ [][NextTls]_vars

----------------------------------------------------------------------------
(* Properties *)

IsPrefix(a, b) == Len(a) <= Len(b) /\ SubSeq(b, 1, Len(a)) = a

HealthCheckErrors == {ErrPathWithTCP, ErrPathWithGRPC, ErrBelowMinimum, ErrAboveMaximum}

\* C1: a virtual node, built or imported, holds at most one listener in every
\* reachable state, whatever addListeners calls were made, failed ones included.
C1_AtMostOneListener == Len(listeners) <= 1

\* an imported node that holds its listener after a second one was refused
C1_Witness ==
    /\ kind = "Imported"
    /\ Len(listeners) = 1
    /\ lastCall.op = "addListeners"
    /\ lastCall.err = ErrOneListener

\* the trust key a validation object of the given class renders
C2_TrustKey(validation) == IF validation.class = "FileTrust" THEN "file" ELSE "acm"

\* the stored backend default is the one made from the passed policy
C2_StoredFrom(stored, bd) ==
    /\ stored.clientPolicy.tls.ports = bd.tlsClientPolicy.ports
    /\ DOMAIN stored.clientPolicy.tls.validation.trust = {C2_TrustKey(bd.tlsClientPolicy.validation)}

C2_Step ==
    /\ (lastCall'.op = "addBackendDefaults" /\ Len(backendDefaults) = 0) =>
           /\ lastCall'.err = NoError
           /\ Len(backendDefaults') = 1
           /\ C2_StoredFrom(backendDefaults'[1], lastCall'.backendDefaults[1])
    /\ (lastCall'.op = "VirtualNode" /\ lastCall'.err = NoError
            /\ IsDefined(lastCall'.backendDefaults)) =>
           /\ Len(backendDefaults') = 1
           /\ C2_StoredFrom(backendDefaults'[1], lastCall'.backendDefaults[1])
    /\ (lastCall'.op = "addBackendDefaults" /\ Len(backendDefaults) >= 1) =>
           /\ lastCall'.err = ErrOneBackendDefault
           /\ backendDefaults' = backendDefaults
           /\ renderedBackendDefaults' = Some(backendDefaults[1])

\* C2: a node has at most one backend default; the first addBackendDefaults call
\* (the constructor's or the user's) stores its policy, every later call fails with
\* 'Virtual Node can have only one backend default' and leaves the stored, rendered
\* backend default the first one.
C2_OneBackendDefault == [](Len(backendDefaults) <= 1) /\ [][C2_Step]_vars

\* a second, different policy was refused and the first is still the stored one
C2_Witness ==
    /\ lastCall.op = "addBackendDefaults"
    /\ lastCall.err = ErrOneBackendDefault
    /\ Len(backendDefaults) = 1
    /\ ~C2_StoredFrom(backendDefaults[1], lastCall.backendDefaults[1])

C3_Step ==
    lastCall'.op = "addListeners" =>
        /\ lastCall'.err = ErrOneListener <=> Len(listeners) + Len(lastCall'.listeners) > 1
        /\ lastCall'.err = ErrOneListener => listeners' = listeners /\ backends' = backends
        /\ Len(lastCall'.listeners) = 0 =>
               /\ lastCall'.err = NoError
               /\ listeners' = listeners
               /\ backends' = backends
               /\ backendDefaults' = backendDefaults

\* C3: addListeners fails with 'VirtualNode may have at most one listener' exactly
\* when the listeners already held plus the listeners passed are more than one; then
\* nothing is added and listeners and backends are unchanged; a call with no
\* listener never fails and changes nothing.
C3_CardinalityCheck == [][C3_Step]_vars

\* two listeners passed in one call to a node that has none: refused, none stored
C3_Witness ==
    /\ lastCall.op = "addListeners"
    /\ lastCall.err = ErrOneListener
    /\ Len(lastCall.listeners) = 2
    /\ Len(listeners) = 0

\* C4: the three lists change only by appending: over every step, each list before
\* the step is a prefix of the list after it.
C4_AppendOnly ==
    [][/\ IsPrefix(backends, backends')
       /\ IsPrefix(listeners, listeners')
       /\ IsPrefix(backendDefaults, backendDefaults')]_vars

\* backends were appended to a list that already held a different backend, on a
\* node that also holds a listener and a backend default
C4_Witness ==
    /\ lastCall.op = "addBackends"
    /\ Len(lastCall.services) >= 1
    /\ Len(backends) > Len(lastCall.services)
    /\ backends[1] # backends[Len(backends)]
    /\ Len(listeners) = 1
    /\ Len(backendDefaults) = 1

\* the backend entry made for a virtual service
C8_Entry(s) == [virtualService |-> [virtualServiceName |-> s.virtualServiceName]]

C8_Step ==
    /\ lastCall'.op = "addBackends" =>
           /\ lastCall'.err = NoError
           /\ Len(backends') = Len(backends) + Len(lastCall'.services)
           /\ SubSeq(backends', 1, Len(backends)) = backends
           /\ \A i \in 1..Len(lastCall'.services) :
                  backends'[Len(backends) + i] = C8_Entry(lastCall'.services[i])
           /\ listeners' = listeners
           /\ backendDefaults' = backendDefaults
    /\ (lastCall'.op = "VirtualNode" /\ lastCall'.err = NoError) =>
           /\ Len(backends') = Len(lastCall'.services)
           /\ \A i \in 1..Len(lastCall'.services) :
                  backends'[i] = C8_Entry(lastCall'.services[i])

\* C8: addBackends never fails and appends one entry per virtual service passed, in
\* argument order, each carrying the service's name; nothing is limited or
\* de-duplicated; the constructor's backends come first; listeners and
\* backendDefaults are untouched.
C8_AddBackends == [][C8_Step]_vars

\* the same service was added again, after the constructor's backends
C8_Witness ==
    /\ kind = "VirtualNode"
    /\ lastCall.op = "addBackends"
    /\ Len(lastCall.services) = 2
    /\ Len(backends) = 3
    /\ backends[1] = backends[2]
    /\ backends[2] # backends[3]

\* a listener whose health check renders and validates
C10_Valid(l) ==
    renderHealthCheck(l.healthCheck, OrObj(l.portMapping, [port |-> 8080, protocol |-> HTTP])).err
        = NoError

C10_Step ==
    /\ (lastCall'.op = "addListeners" /\ lastCall'.err \in HealthCheckErrors) =>
           /\ listeners' = listeners
           /\ Len(listeners') = 0
    /\ (lastCall'.op = "addListeners" /\ Len(listeners) = 0
            /\ Len(lastCall'.listeners) = 1 /\ C10_Valid(lastCall'.listeners[1])) =>
           /\ lastCall'.err = NoError
           /\ Len(listeners') = 1

\* C10: when the health check of the passed listener fails to render or validate,
\* the error is raised before anything is stored and the listeners list is
\* unchanged (and still empty), and a valid listener passed to a node with no
\* listener is stored, so a later call with a valid listener succeeds.
C10_AllOrNothing == [][C10_Step]_vars

\* a health check with a path under TCP was refused and the node has no listener
C10_Witness ==
    /\ kind # "none"
    /\ lastCall.op = "addListeners"
    /\ lastCall.err = ErrPathWithTCP
    /\ Len(listeners) = 0

\* C5: no stored listener has a rendered health check with protocol TCP or GRPC
\* and a path, whatever the health check's own protocol and path and the port
\* mapping's protocol were.
C5_NoPathWithTcpOrGrpc ==
    \A i \in 1..Len(listeners) :
        (IsDefined(listeners[i].healthCheck)
            /\ listeners[i].healthCheck[1].protocol \in {TCP, GRPC}) =>
        listeners[i].healthCheck[1].path = Undefined

\* the value stored for an optional field: the given one, else the default
C9_Given(o, d) == IF IsDefined(o) THEN o[1] ELSE d

\* what the claim says is stored for a listener
C9_Expected(l) ==
    LET pm == C9_Given(l.portMapping, [port |-> 8080, protocol |-> HTTP])
    IN  [portMapping |-> pm,
         healthCheck |->
             IF l.healthCheck = Undefined THEN Undefined
             ELSE LET hc == l.healthCheck[1]
                      protocol == C9_Given(hc.protocol, pm.protocol)
                  IN  Some([healthyThreshold |-> C9_Given(hc.healthyThreshold, 2),
                            unhealthyThreshold |-> C9_Given(hc.unhealthyThreshold, 2),
                            intervalMillis |->
                                IF IsDefined(hc.interval) THEN toMilliseconds(hc.interval[1])
                                ELSE 5000,
                            timeoutMillis |->
                                IF IsDefined(hc.timeout) THEN toMilliseconds(hc.timeout[1])
                                ELSE 2000,
                            port |-> C9_Given(hc.port, pm.port),
                            protocol |-> protocol,
                            path |-> IF IsDefined(hc.path) THEN hc.path
                                     ELSE IF protocol = HTTP THEN Some("/") ELSE Undefined])]

\* C9: a listener that was stored has the given port mapping or 8080/HTTP, no
\* health check when none was given, and otherwise a health check in which every
\* field given is stored as given and every other field has its default
\* (2, 2, 5000, 2000, the port mapping's port and protocol, path '/' under HTTP).
C9_StoredAsGivenOrDefault ==
    (lastCall.op \in {"addListeners", "VirtualNode"}
        /\ lastCall.err = NoError /\ Len(lastCall.listeners) = 1) =>
    listeners = <<C9_Expected(lastCall.listeners[1])>>

\* the enforce value the claim expects for an optional enforce option
C6_Enforce(given) == IF given = Undefined THEN TRUE ELSE given[1]

\* C6: the client policy stored by addBackendDefaults, and the one returned by the
\* bind of a policy made by ClientPolicy.fileTrust / acmTrust, has enforce = true
\* when the option is not given and the given value otherwise, and has the given
\* ports (absent when not given).
C6_TlsEnforceDefault ==
    /\ (lastCall.op \in {"addBackendDefaults", "VirtualNode"} /\ lastCall.err = NoError
            /\ IsDefined(lastCall.backendDefaults)) =>
           /\ backendDefaults[1].clientPolicy.tls.enforce
                  = C6_Enforce(lastCall.backendDefaults[1].tlsClientPolicy.enforce)
           /\ backendDefaults[1].clientPolicy.tls.ports
                  = lastCall.backendDefaults[1].tlsClientPolicy.ports
    /\ (IsClientPolicy(policy) /\ IsDefined(bindResult)) =>
           /\ bindResult[1].clientPolicy.tls.enforce = C6_Enforce(policyProps[1].props.enforceTls)
           /\ bindResult[1].clientPolicy.tls.ports = policyProps[1].props.ports

\* an explicit enforce = false reached the stored backend default, and an explicit
\* enforceTls = false reached the result of bind
C6_Witness ==
    /\ Len(backendDefaults) = 1
    /\ backendDefaults[1].clientPolicy.tls.enforce = FALSE
    /\ IsClientPolicy(policy)
    /\ policyProps[1].props.enforceTls = Some(FALSE)
    /\ IsDefined(bindResult)
    /\ bindResult[1].clientPolicy.tls.enforce = FALSE

\* C7: the validation returned by bind has the one trust key of the factory used,
\* 'file' carrying the given certificate chain or 'acm' carrying the given list of
\* certificate authority ARNs in order; it is a function of the factory's options
\* alone, so it is the same at every call and for every scope.
C7_TrustByFactory ==
    IsDefined(bindResult) =>
        LET factory == policyProps[1].factory
            props == policyProps[1].props
            v == IF IsValidation(policy) THEN bindResult[1].tlsValidation
                 ELSE bindResult[1].clientPolicy.tls.validation
        IN  IF factory \in {"TLSClientValidation.fileTrust", "ClientPolicy.fileTrust"}
            THEN /\ DOMAIN v.trust = {"file"}
                 /\ v.trust.file.certificateChain = props.certificateChain
            ELSE /\ DOMAIN v.trust = {"acm"}
                 /\ v.trust.acm.certificateAuthorityArns = props.certificateAuthorityArns

====
